---- MODULE Spec2Model ----
(***************************************************************************)
(* A model of gifttt's reactive engine: the VariableManager (cache, Store  *)
(* write-through, Updates channel), the GlobalScope bridge, the built-ins, *)
(* and the RuleManager dispatch loop with its concurrent rule batches.     *)
(*                                                                         *)
(* Tasks: task 0 is a goroutine that calls VariableManager.Set directly    *)
(* (as the clock goroutine does); tasks 1..MaxBatches are the goroutines   *)
(* the dispatch loop spawns, one per received event. A goroutine that has  *)
(* finished gives its slot back, and a goroutine the loop has started      *)
(* waits in `pending` until it is scheduled into a slot: MaxBatches bounds *)
(* the batches running at once, not the batches started.                   *)
(*                                                                         *)
(* Specifications: Spec is the engine under calls of task 0; SpecClock is  *)
(* the clock goroutine, with or without a rule loaded beside it, over a   *)
(* Store left by an earlier run; SpecCalls                                 *)
(* calls the bridge and the built-ins directly; SpecLive and SpecCascade   *)
(* add the scheduler's fairness, the first with no bound on the events the *)
(* loop receives, the second without the history variables, so that a      *)
(* cascade that never ends is a cycle of states.                           *)
(***************************************************************************)
EXTENDS Integers, Sequences, FiniteSets, Bags, TLC

(* ------------------------------ bounds --------------------------------- *)
\* number of direct Set calls task 0 makes
MaxSets == 2
\* rule-batch goroutines running at once
MaxBatches == 2
\* Store writes the Store refuses
MaxStoreFailures == 1
\* events the dispatch loop receives beyond those of the clock's ticks
MaxEvents == 4
\* ticks of the clock goroutine
MaxTicks == 2
\* lines the built-in log writes
MaxLines == 2
\* goroutines started and not yet run that the cascades are followed with
MaxPending == 3

(* --------------------------- value domain ------------------------------ *)
\* Go dynamic values held in an interface{}: a dynamic type and a payload.
\* A string payload n stands for the n-th string literal.
Int64(n) == [type |-> "int64", v |-> n]
Float64(n) == [type |-> "float64", v |-> n]
String(n) == [type |-> "string", v |-> n]
\* a function value (twik exposes them): json.Marshal rejects it
Func == [type |-> "func", v |-> 0]
Nil == [type |-> "nil", v |-> 0]
\* no entry in the cache map
Absent == [type |-> "absent", v |-> 0]

\* error values: a message and the name it is formatted with
NoErr == [msg |-> "nil", arg |-> ""]
Err(m, a) == [msg |-> m, arg |-> a]

\* the six variables the clock goroutine writes, in the order it writes them
ClockNames == << "time:second", "time:minute", "time:hour",
                "date:day", "date:month", "date:year" >>
NumClockNames == Len(ClockNames)
Names == {"x", "y", "z"} \cup {ClockNames[i] : i \in 1..NumClockNames}
\* names and values task 0 passes to Set
CallerNames == {"x"}
CallerValues == {Int64(1), Int64(2), String(1), Func}

varPrefix == "var~"
\* the Store key of a variable: varPrefix + name
Key(name) == <<varPrefix, name>>
Keys == {Key(n) : n \in Names}

(* ------------------------- encoding/json ------------------------------- *)
\* the text of a Store record {"value": ...}; NotFound is a missing key
JNumber(n) == [j |-> "number", v |-> n]
JString(n) == [j |-> "string", v |-> n]
JNull == [j |-> "null", v |-> 0]
Garbage == [j |-> "garbage", v |-> 0]
NotFound == [j |-> "notfound", v |-> 0]

\* json.Marshal(&Value{Value: value, Name: name}): Name is `json:"-"`
Marshal(value) ==
  IF value.type = "func" THEN [b |-> NotFound, err |-> Err("json: unsupported type", "")]
  ELSE IF value.type \in {"int64", "float64"} THEN [b |-> JNumber(value.v), err |-> NoErr]
  ELSE IF value.type = "string" THEN [b |-> JString(value.v), err |-> NoErr]
  ELSE [b |-> JNull, err |-> NoErr]

\* json.Unmarshal(b, &Value{}) into Value interface{}: every JSON number
\* decodes to a float64
Unmarshal(b) ==
  IF b.j = "number" THEN [val |-> Float64(b.v), err |-> NoErr]
  ELSE IF b.j = "string" THEN [val |-> String(b.v), err |-> NoErr]
  ELSE IF b.j = "null" THEN [val |-> Nil, err |-> NoErr]
  ELSE [val |-> Nil, err |-> Err("invalid character", "")]

\* Go's == on two interface{} values: same dynamic type and same payload.
\* (Two values of one uncomparable type would panic; a func value never
\* reaches the cache or the Store, so old is never one.)
GoEqPointers(a, b) == FALSE
GoEqTypeOnly(a, b) == a.type = b.type
GoEq(a, b) == a.type = b.type /\ a.v = b.v

(* ------------------------------ rules ---------------------------------- *)
\* A loaded rule list, in load order. Rule programs are opaque to the
\* engine; three shapes are loaded here:
\*   copy : (set y x)        -- Get("x"), then Set("y", value)
\*   log  : (log 42)         -- the built-in log with a non-string argument
\*   const: (set z 1)        -- Set("z", 1)
\*   two  : (set z 2)        -- Set("z", 2)
Rules == << [name |-> "a.rule", kind |-> "copy"],
            [name |-> "b.rule", kind |-> "log"],
            [name |-> "c.rule", kind |-> "const"] >>
\* rule lists with one rule, and the list of an empty rules directory
CopyOnly == << [name |-> "a.rule", kind |-> "copy"] >>
ConstOnly == << [name |-> "c.rule", kind |-> "const"] >>
\* two rules that write different constants to one variable
Flip == << [name |-> "c.rule", kind |-> "const"], [name |-> "d.rule", kind |-> "two"] >>
NoRules == << >>

\* logFn(args): one string argument is written to the log, anything else
\* is an error
logFnFirstString(args) ==
  IF Len(args) >= 1 /\ args[1].type = "string"
  THEN [val |-> Nil, err |-> NoErr, written |-> TRUE]
  ELSE [val |-> Nil, err |-> Err("log function takes a single string argument", ""),
        written |-> FALSE]
logFn(args) ==
  IF Len(args) = 1 /\ args[1].type = "string"
  THEN [val |-> Nil, err |-> NoErr, written |-> TRUE]
  ELSE [val |-> Nil, err |-> Err("log function takes a single string argument", ""),
        written |-> FALSE]

\* task 0, the goroutine that calls Set directly
Caller == 0
\* no task: the writer of a cache entry nobody has written
NoTask == -1
Batches == 1..MaxBatches
Tasks == {Caller} \cup Batches

\* capacity of the Updates channel: make(chan *Value)
UpdatesCap == 0

VARIABLES
  cache,      \* vm.cache: name -> value, Absent when there is no entry
  store,      \* the Store: key -> record text, NotFound when missing
  Updates,    \* vm.Updates: events offered by senders, oldest first
  pc,         \* where each task is
  call,       \* the (name, value) of the Set call a task is in or last made
  ret,        \* what a task's last Set call returned
  ri,         \* a batch's position in the rule list
  ran,        \* the rules a batch has finished, in order
  logged,     \* the rule names a batch has logged an error for
  crashed,    \* the runtime has thrown a fatal concurrent-map fault
  failures,   \* number of Store writes the Store has refused
  before,     \* history: the cache entry of a call's name when the call began
  writer,     \* history: the task that last wrote each cache entry
  pending,    \* goroutines the dispatch loop has started that have not run yet
  done,       \* history: number of batches that have run to their end
  recvd,      \* history: the events the dispatch loop has received, in order
  effective,  \* history: bag of (name, value) of the effective Set calls
  calls,      \* history: the Set calls task 0 has made, in order
  store0,     \* history: the Store at process start
  rules,      \* m.rules: the rules the RuleManager has loaded
  history,    \* the history variables done, recvd and effective are kept
  ticks,      \* number of ticks the clock goroutine has begun
  now,        \* the clock goroutine's time.Now() of its current tick
  ci,         \* the clock goroutine's next write of the tick, 0 between ticks
  result,     \* what the last direct call of a bridge method or built-in returned
  output,     \* the lines log.Println has written
  panicked    \* the value of a panic that is unwinding, "" when there is none

vars == <<cache, store, Updates, pc, call, ret, ri, ran, logged, crashed,
          failures, pending, before, writer, done, recvd, effective, calls,
          store0, rules, history, ticks, now, ci, result, output, panicked>>
\* the clock goroutine's locals, and the state of direct calls
clockVars == <<ticks, now, ci>>
callVars == <<result, output, panicked>>

NumRules == Len(rules)

NoCall == [name |-> "", value |-> Nil]
NoRet == [msg |-> "none", arg |-> ""]
NoTime == [i \in 1..NumClockNames |-> 0]
\* what a built-in did outside the process: nothing
NoExt == [cmd |-> <<>>, outcome |-> "", waited |-> FALSE]
NoResult == [op |-> "", name |-> "", args |-> <<>>, val |-> Nil, err |-> NoRet,
             ext |-> NoExt]

(* ------------------------------ Store ---------------------------------- *)
\* GetStore().Get(key) -> (bytes, error) and GetStore().Set(key, bytes) ->
\* error: the external key/value store
StoreGet(key) ==
  IF store[key] = NotFound THEN [b |-> NotFound, err |-> Err("not found", "")]
  ELSE [b |-> store[key], err |-> NoErr]

StoreSet(key, b) == [store EXCEPT ![key] = b]

\* Stores the process may start with
EmptyStore == [k \in Keys |-> NotFound]
InitStores == { EmptyStore,
                [EmptyStore EXCEPT ![Key("x")] = JNumber(1)],
                [EmptyStore EXCEPT ![Key("x")] = JString(1)],
                [EmptyStore EXCEPT ![Key("y")] = JString(1)],
                [EmptyStore EXCEPT ![Key("x")] = Garbage] }

(* ------------------------- VariableManager.Get ------------------------- *)
GetStoreOnly(name) ==
  LET r == StoreGet(Key(name)) IN
  IF r.err # NoErr
  THEN [val |-> Nil, err |-> Err("undefined symbol", name), hit |-> FALSE]
  ELSE LET d == Unmarshal(r.b) IN
       [val |-> d.val, err |-> d.err, hit |-> FALSE]
\* Get, lines 50-61, after a miss in the cache: read the Store and decode
GetFromStore(name) ==
  LET r == StoreGet(Key(name)) IN
  IF r.err # NoErr
  THEN [val |-> Nil, err |-> Err("undefined symbol", name), hit |-> FALSE]
  ELSE LET d == Unmarshal(r.b) IN
       [val |-> d.val, err |-> d.err, hit |-> FALSE]
\* Get, lines 46-48: the lookup in the cache map
GetFromCache(name) == [val |-> cache[name], err |-> NoErr, hit |-> TRUE]
\* Get run with no other goroutine between its two reads
Get(name) ==
  IF cache[name] # Absent
  THEN GetFromCache(name)
  ELSE GetFromStore(name)

Init ==
  /\ cache = [n \in Names |-> Absent]
  /\ store \in InitStores
  /\ store0 = store
  /\ Updates = <<>>
  /\ pc = [t \in Tasks |-> IF t = Caller THEN "ready" ELSE "free"]
  /\ call = [t \in Tasks |-> NoCall]
  /\ ret = [t \in Tasks |-> NoRet]
  /\ ri = [t \in Batches |-> 1]
  /\ ran = [t \in Batches |-> <<>>]
  /\ logged = [t \in Batches |-> <<>>]
  /\ crashed = FALSE
  /\ failures = 0
  /\ before = [t \in Tasks |-> Absent]
  /\ writer = [n \in Names |-> NoTask]
  /\ pending = 0
  /\ done = 0
  /\ recvd = <<>>
  /\ effective = EmptyBag
  /\ calls = <<>>
  /\ rules = Rules
  /\ history = TRUE
  /\ ticks = 0
  /\ now = NoTime
  /\ ci = 0
  /\ result = NoResult
  /\ output = <<>>
  /\ panicked = ""

(* --------------------------- task bookkeeping -------------------------- *)
\* the range loop of the batch goroutine: where a batch goes after rule i
\* returned err (an error is logged, the loop goes on)
AfterRuleStopOnError(i, err) == IF i < NumRules /\ err = NoErr THEN "rule" ELSE "free"
AfterRule(i, err) == IF i < NumRules THEN "rule" ELSE "free"

\* the rule the loop runs after rule i
NextRuleSkip(i) == IF i + 1 < NumRules THEN i + 2 ELSE i
NextRule(i) == IF i < NumRules THEN i + 1 ELSE i

\* r.Run() of batch b's current rule has returned err
RuleDone(b, err) ==
  /\ ran' = [ran EXCEPT ![b] = Append(@, ri[b])]
  /\ logged' = [logged EXCEPT ![b] =
                  IF err # NoErr THEN Append(@, [rule |-> rules[ri[b]].name, err |-> err])
                  ELSE @]
  /\ ri' = [ri EXCEPT ![b] = NextRule(@)]
  /\ pc' = [pc EXCEPT ![b] = AfterRule(ri[b], err)]
  /\ done' = IF history /\ AfterRule(ri[b], err) = "free" THEN done + 1 ELSE done

\* Set returns err to its caller: task 0 is ready for its next call; in a
\* batch the error travels up through GlobalScope.Set, the interpreter and
\* Rule.Run to the batch loop
FinishSet(t, err) ==
  /\ ret' = [ret EXCEPT ![t] = err]
  /\ before' = [before EXCEPT ![t] = Absent]
  /\ IF t = Caller
     THEN /\ pc' = [pc EXCEPT ![t] = "ready"]
          /\ UNCHANGED <<ri, ran, logged, done>>
     ELSE RuleDone(t, err)

\* the event a task's Set call hands to the channel: v, the &Value built
\* at line 73
EventFromCache(t) == [task |-> t, name |-> call[t].name, value |-> cache[call[t].name]]
Event(t) == [task |-> t, name |-> call[t].name, value |-> call[t].value]
\* what the receiver sees of it
Received(e) == [name |-> e.name, value |-> e.value]

\* index of the newest event of task t in the channel, 0 when it has none
RECURSIVE LastPos(_, _, _)
LastPos(q, t, i) ==
  IF i = 0 THEN 0
  ELSE IF q[i].task = t THEN i
  ELSE LastPos(q, t, i - 1)

\* the send of task t has completed: its event was received, or it sits in
\* the channel's buffer
SendCompletedBuffered(t) == LastPos(Updates, t, Len(Updates)) <= UpdatesCap + 1
SendCompleted(t) == LastPos(Updates, t, Len(Updates)) <= UpdatesCap

\* the free batch slot a new goroutine takes
FreeSlots == {b \in Batches : pc[b] = "free"}
Lowest(S) == CHOOSE b \in S : \A c \in S : b <= c

\* a task is about to read or write the cache map
ReadsCache(t) ==
  \/ pc[t] = "get"
  \/ t \in Batches /\ pc[t] = "rule" /\ rules[ri[t]].kind = "copy"
WritesCache(t) == pc[t] = "cache"
\* two goroutines at the map at once, one of them writing
MapRace == \E t1, t2 \in Tasks :
             t1 # t2 /\ WritesCache(t1) /\ (ReadsCache(t2) \/ WritesCache(t2))

(* ------------------------------ actions -------------------------------- *)
\* task 0 calls vm.Set(name, value)
CallSet(name, value) ==
  /\ ~crashed
  /\ panicked = ""
  /\ pc[Caller] = "ready"
  /\ Len(calls) < MaxSets
  /\ call' = [call EXCEPT ![Caller] = [name |-> name, value |-> value]]
  /\ ret' = [ret EXCEPT ![Caller] = NoRet]
  /\ pc' = [pc EXCEPT ![Caller] = "get"]
  /\ calls' = Append(calls, [name |-> name, value |-> value])
  /\ before' = [before EXCEPT ![Caller] = cache[name]]
  /\ UNCHANGED <<pending, cache, store, Updates, ri, ran, logged, crashed, failures,
                 writer, done, recvd, effective, store0>>
  /\ UNCHANGED <<rules, history, clockVars, callVars>>

\* Set, lines 69-77, once vm.Get has returned old: return on an equal
\* value, marshal, return on a marshal error
SetCompare(t, old) ==
  LET m == Marshal(call[t].value)
  IN IF old.err = NoErr /\ GoEq(old.val, call[t].value)
     THEN FinishSet(t, NoErr) /\ UNCHANGED effective
     ELSE IF m.err # NoErr
     THEN FinishSet(t, m.err) /\ UNCHANGED effective
     ELSE /\ pc' = [pc EXCEPT ![t] = "cache"]
          /\ effective' = IF history THEN effective (+) SetToBag({call[t]})
                          ELSE effective
          /\ UNCHANGED <<ret, ri, ran, logged, done, before>>

\* Set, line 68 into Get, lines 46-48: the lookup in the cache map. On a
\* hit Get returns and Set goes on to line 77; on a miss the goroutine
\* goes on to the Store, and others may run before it reads it
SetGet(t) ==
  /\ ~crashed
  /\ panicked = ""
  /\ pc[t] = "get"
  /\ IF cache[call[t].name] # Absent
     THEN SetCompare(t, GetFromCache(call[t].name))
     ELSE /\ pc' = [pc EXCEPT ![t] = "getstore"]
          /\ UNCHANGED <<ret, ri, ran, logged, done, before, effective>>
  /\ UNCHANGED <<pending, cache, store, Updates, call, crashed, failures, writer, recvd,
                 calls, store0>>
  /\ UNCHANGED <<rules, history, clockVars, callVars>>

\* vm.cache[name] = v
CachePutSkipped(name, value) == cache
CachePut(name, value) == [cache EXCEPT ![name] = value]

\* Set, line 80: vm.cache[name] = v
SetCache(t) ==
  /\ ~crashed
  /\ panicked = ""
  /\ pc[t] = "cache"
  /\ cache' = CachePut(call[t].name, call[t].value)
  /\ writer' = [writer EXCEPT ![call[t].name] = t]
  /\ pc' = [pc EXCEPT ![t] = "send"]
  /\ UNCHANGED <<pending, store, Updates, call, ret, ri, ran, logged, crashed, failures,
                 before, done, recvd, effective, calls, store0>>
  /\ UNCHANGED <<rules, history, clockVars, callVars>>

\* Set, line 81: vm.Updates <- v, the sender offers its event and blocks
SetSend(t) ==
  /\ ~crashed
  /\ panicked = ""
  /\ pc[t] = "send"
  /\ Updates' = Append(Updates, Event(t))
  /\ pc' = [pc EXCEPT ![t] = "sending"]
  /\ UNCHANGED <<pending, cache, store, call, ret, ri, ran, logged, crashed, failures,
                 before, writer, done, recvd, effective, calls, store0>>
  /\ UNCHANGED <<rules, history, clockVars, callVars>>

\* Set, lines 81-82: the send has completed, the sender goes on to
\* return store.Set(varPrefix+name, string(b)); the Store may refuse the
\* write
SetStore(t, ok) ==
  /\ ~crashed
  /\ panicked = ""
  /\ pc[t] = "sending"
  /\ SendCompleted(t)
  /\ ok \/ failures < MaxStoreFailures
  /\ IF ok
     THEN /\ store' = StoreSet(Key(call[t].name), Marshal(call[t].value).b)
          /\ failures' = failures
          /\ FinishSet(t, NoErr)
     ELSE /\ store' = store
          /\ failures' = failures + 1
          /\ FinishSet(t, Err("store", ""))
  /\ UNCHANGED <<pending, cache, Updates, call, crashed, writer, recvd, effective, calls,
                 store0>>
  /\ UNCHANGED <<rules, history, clockVars, callVars>>

\* the events the dispatch loop receives in the specifications that bound
\* them: MaxEvents, and those of the ticks
\* the clock goroutine has begun
EventBound == MaxEvents + NumClockNames * ticks

\* The dispatch loop stands at its receive, line 254: the go statement of
\* line 258 returns at once, so the loop is back at the receive whatever
\* the batches it started are doing.
LoopWhenWorkerFree == pending = 0 /\ FreeSlots # {}
LoopAfterBatchEnds == pending = 0 /\ \A b \in Batches : pc[b] = "free"
LoopAtReceive == TRUE

\* RuleManager.Run, lines 253-258: the dispatch loop receives one event
\* and starts one goroutine with the go statement
Receive ==
  /\ ~crashed
  /\ panicked = ""
  /\ LoopAtReceive
  /\ Updates # <<>>
  /\ recvd' = IF history THEN Append(recvd, Received(Head(Updates))) ELSE recvd
  /\ Updates' = Tail(Updates)
  /\ pending' = pending + 1
  /\ UNCHANGED <<cache, store, pc, call, ret, ri, ran, logged, crashed, failures,
                 before, writer, done, effective, calls, store0>>
  /\ UNCHANGED <<rules, history, clockVars, callVars>>

\* the dispatch loop while the events it receives are within EventBound
DispatchLoop ==
  /\ Len(recvd) < EventBound
  /\ Receive

\* RuleManager.Run, lines 258-259: a started goroutine is scheduled and
\* enters its loop over the rules; over an empty list the loop ends at once
BatchStart ==
  /\ ~crashed
  /\ panicked = ""
  /\ pending > 0
  /\ FreeSlots # {}
  /\ LET b == Lowest(FreeSlots) IN
       /\ pc' = [pc EXCEPT ![b] = IF NumRules = 0 THEN "free" ELSE "rule"]
       /\ done' = IF history /\ NumRules = 0 THEN done + 1 ELSE done
       /\ ri' = [ri EXCEPT ![b] = 1]
       /\ ran' = [ran EXCEPT ![b] = <<>>]
       /\ logged' = [logged EXCEPT ![b] = <<>>]
       /\ call' = [call EXCEPT ![b] = NoCall]
       /\ ret' = [ret EXCEPT ![b] = NoRet]
  /\ pending' = pending - 1
  /\ UNCHANGED <<cache, store, Updates, crashed, failures, before, writer,
                 recvd, effective, calls, store0>>
  /\ UNCHANGED <<rules, history, clockVars, callVars>>

\* (set y x) once GlobalScope.Get has returned g for x: an error ends the
\* rule, a value is passed to Set
RuleCopy(b, g) ==
  IF g.err # NoErr
  THEN RuleDone(b, g.err) /\ UNCHANGED <<call, ret, before>>
  ELSE /\ call' = [call EXCEPT ![b] = [name |-> "y", value |-> g.val]]
       /\ ret' = [ret EXCEPT ![b] = NoRet]
       /\ before' = [before EXCEPT ![b] = cache["y"]]
       /\ pc' = [pc EXCEPT ![b] = "get"]
       /\ UNCHANGED <<ri, ran, logged, done>>

\* Get, lines 50-61, in a goroutine whose lookup missed: the Store is read
\* as it is now, and the caller of Get goes on, Set at line 69, the rule
\* (set y x) with its call of Set
GetMiss(t) ==
  /\ ~crashed
  /\ panicked = ""
  /\ pc[t] \in {"getstore", "rulestore"}
  /\ IF pc[t] = "getstore"
     THEN SetCompare(t, GetFromStore(call[t].name)) /\ UNCHANGED call
     ELSE RuleCopy(t, GetFromStore("x")) /\ UNCHANGED effective
  /\ UNCHANGED <<pending, cache, store, Updates, crashed, failures, writer, recvd,
                 calls, store0>>
  /\ UNCHANGED <<rules, history, clockVars, callVars>>

\* Rule.Run -> GlobalScope.Eval of the batch's current rule, up to its
\* first call into the VariableManager's Set; (set y x) first looks x up
\* in the cache map, and goes on to the Store on a miss
RuleStart(b) ==
  /\ ~crashed
  /\ panicked = ""
  /\ pc[b] = "rule"
  /\ LET kind == rules[ri[b]].kind IN
     IF kind = "copy"
     THEN IF cache["x"] # Absent
          THEN RuleCopy(b, GetFromCache("x"))
          ELSE /\ pc' = [pc EXCEPT ![b] = "rulestore"]
               /\ UNCHANGED <<call, ret, before, ri, ran, logged, done>>
     ELSE IF kind = "log"
     THEN RuleDone(b, logFn(<<Int64(42)>>).err) /\ UNCHANGED <<call, ret, before>>
     ELSE /\ call' = [call EXCEPT ![b] = [name |-> "z",
                                          value |-> IF kind = "const" THEN Int64(1)
                                                    ELSE Int64(2)]]
          /\ ret' = [ret EXCEPT ![b] = NoRet]
          /\ before' = [before EXCEPT ![b] = cache["z"]]
          /\ pc' = [pc EXCEPT ![b] = "get"]
          /\ UNCHANGED <<ri, ran, logged, done>>
  /\ UNCHANGED <<pending, cache, store, Updates, crashed, failures, writer, recvd, effective,
                 calls, store0>>
  /\ UNCHANGED <<rules, history, clockVars, callVars>>

\* the Go runtime detects two goroutines at the cache map, one writing, and
\* throws "fatal error: concurrent map writes" (or "... read and map
\* write"): the process dies. Detection is best effort, so the fault may
\* also not happen.
ConcurrentMapFault ==
  /\ ~crashed
  /\ panicked = ""
  /\ MapRace
  /\ crashed' = TRUE
  /\ UNCHANGED <<pending, cache, store, Updates, pc, call, ret, ri, ran, logged, failures,
                 before, writer, done, recvd, effective, calls, store0>>
  /\ UNCHANGED <<rules, history, clockVars, callVars>>

Next ==
  \/ \E n \in CallerNames, v \in CallerValues : CallSet(n, v)
  \/ \E t \in Tasks : SetGet(t)
  \/ \E t \in Tasks : GetMiss(t)
  \/ \E t \in Tasks : SetCache(t)
  \/ \E t \in Tasks : SetSend(t)
  \/ \E t \in Tasks, ok \in BOOLEAN : SetStore(t, ok)
  \/ DispatchLoop
  \/ BatchStart
  \/ \E b \in Batches : RuleStart(b)
  \/ ConcurrentMapFault

Spec == Init /\ [][Next]_vars


(* --------------------------- the clock goroutine ----------------------- *)
\* readings of time.Now(): second, minute, hour, day, month, year
Times == { << 59, 59, 23, 31, 12, 2025 >>,
           << 0, 0, 0, 1, 1, 2026 >>,
           << 1, 0, 0, 1, 1, 2026 >> }

\* the Store holding the six variables as a run that stopped at reading t
\* left them
StoreAt(t) ==
  [k \in Keys |-> IF \E i \in 1..NumClockNames : k = Key(ClockNames[i])
                  THEN JNumber(t[CHOOSE i \in 1..NumClockNames : k = Key(ClockNames[i])])
                  ELSE NotFound]
ClockStores == {EmptyStore} \cup {StoreAt(t) : t \in Times}

\* RuleManager.Run, lines 242-243: the ticker fires and the goroutine reads
\* the time
Tick(t) ==
  /\ ~crashed
  /\ panicked = ""
  /\ pc[Caller] = "ready"
  /\ ci = 0
  /\ ticks < MaxTicks
  /\ now' = t
  /\ ci' = 1
  /\ ticks' = ticks + 1
  /\ UNCHANGED <<cache, store, Updates, pc, call, ret, ri, ran, logged, crashed,
                 failures, pending, before, writer, done, recvd, effective, calls,
                 store0, rules, history, callVars>>

\* RuleManager.Run, lines 244-249: the next vm.Set of the tick; what Set
\* returns is dropped
ClockSet ==
  /\ ~crashed
  /\ panicked = ""
  /\ pc[Caller] = "ready"
  /\ ci \in 1..NumClockNames
  /\ LET c == [name |-> ClockNames[ci], value |-> Int64(now[ci])] IN
       /\ call' = [call EXCEPT ![Caller] = c]
       /\ calls' = Append(calls, c)
       /\ before' = [before EXCEPT ![Caller] = cache[c.name]]
  /\ ret' = [ret EXCEPT ![Caller] = NoRet]
  /\ pc' = [pc EXCEPT ![Caller] = "get"]
  /\ ci' = IF ci = NumClockNames THEN 0 ELSE ci + 1
  /\ UNCHANGED <<cache, store, Updates, ri, ran, logged, crashed, failures, pending,
                 writer, done, recvd, effective, store0, rules, history, ticks, now,
                 callVars>>

\* the rule lists loaded beside the clock: none, or (set y x), whose
\* batches look up an x no Set call has cached
ClockRules == {NoRules, CopyOnly}

InitClock ==
  /\ cache = [n \in Names |-> Absent]
  /\ store \in ClockStores
  /\ store0 = store
  /\ Updates = <<>>
  /\ pc = [t \in Tasks |-> IF t = Caller THEN "ready" ELSE "free"]
  /\ call = [t \in Tasks |-> NoCall]
  /\ ret = [t \in Tasks |-> NoRet]
  /\ ri = [t \in Batches |-> 1]
  /\ ran = [t \in Batches |-> <<>>]
  /\ logged = [t \in Batches |-> <<>>]
  /\ crashed = FALSE
  /\ failures = 0
  /\ before = [t \in Tasks |-> Absent]
  /\ writer = [n \in Names |-> NoTask]
  /\ pending = 0
  /\ done = 0
  /\ recvd = <<>>
  /\ effective = EmptyBag
  /\ calls = <<>>
  /\ rules \in ClockRules
  /\ history = TRUE
  /\ ticks = 0
  /\ now = NoTime
  /\ ci = 0
  /\ result = NoResult
  /\ output = <<>>
  /\ panicked = ""

\* the clock goroutine, the dispatch loop and the batches it starts, whose
\* lookups of x run beside the clock's writes of the cache map
NextClock ==
  \/ \E t \in Times : Tick(t)
  \/ ClockSet
  \/ \E t \in Tasks : SetGet(t)
  \/ \E t \in Tasks : GetMiss(t)
  \/ \E t \in Tasks : SetCache(t)
  \/ \E t \in Tasks : SetSend(t)
  \/ \E t \in Tasks, ok \in BOOLEAN : SetStore(t, ok)
  \/ DispatchLoop
  \/ BatchStart
  \/ \E b \in Batches : RuleStart(b)
  \/ ConcurrentMapFault

SpecClock == InitClock /\ [][NextClock]_vars

(* ------------------- the engine under fair scheduling ------------------ *)
\* values task 0 passes to Set, and the Stores the process starts with
LiveValues == {Int64(1), Int64(2)}
LiveStores == { EmptyStore, [EmptyStore EXCEPT ![Key("x")] = JNumber(1)] }
\* rule lists whose rules write a fixed function of variables no rule writes
LiveRules == {CopyOnly, ConstOnly}

InitLive ==
  /\ cache = [n \in Names |-> Absent]
  /\ store \in LiveStores
  /\ store0 = store
  /\ Updates = <<>>
  /\ pc = [t \in Tasks |-> IF t = Caller THEN "ready" ELSE "free"]
  /\ call = [t \in Tasks |-> NoCall]
  /\ ret = [t \in Tasks |-> NoRet]
  /\ ri = [t \in Batches |-> 1]
  /\ ran = [t \in Batches |-> <<>>]
  /\ logged = [t \in Batches |-> <<>>]
  /\ crashed = FALSE
  /\ failures = 0
  /\ before = [t \in Tasks |-> Absent]
  /\ writer = [n \in Names |-> NoTask]
  /\ pending = 0
  /\ done = 0
  /\ recvd = <<>>
  /\ effective = EmptyBag
  /\ calls = <<>>
  /\ rules \in LiveRules
  /\ history = TRUE
  /\ ticks = 0
  /\ now = NoTime
  /\ ci = 0
  /\ result = NoResult
  /\ output = <<>>
  /\ panicked = ""

\* task 0 makes at most MaxSets calls and then stops; the loop receives
\* every event offered
NextLive ==
  \/ \E n \in CallerNames, v \in LiveValues : CallSet(n, v)
  \/ \E t \in Tasks : SetGet(t)
  \/ \E t \in Tasks : GetMiss(t)
  \/ \E t \in Tasks : SetCache(t)
  \/ \E t \in Tasks : SetSend(t)
  \/ \E t \in Tasks, ok \in BOOLEAN : SetStore(t, ok)
  \/ Receive
  \/ BatchStart
  \/ \E b \in Batches : RuleStart(b)
  \/ ConcurrentMapFault

\* the Go scheduler runs every goroutine that can run: each step of a Set
\* call, of the dispatch loop and of a batch is taken if it stays possible.
\* Nothing obliges task 0 to call Set, nor the runtime to detect a race.
TaskFairness ==
  /\ \A t \in Tasks : /\ WF_vars(SetGet(t))
                      /\ WF_vars(GetMiss(t))
                      /\ WF_vars(SetCache(t))
                      /\ WF_vars(SetSend(t))
                      /\ WF_vars(\E ok \in BOOLEAN : SetStore(t, ok))
  /\ WF_vars(BatchStart)
  /\ \A b \in Batches : WF_vars(RuleStart(b))
Fairness == TaskFairness /\ WF_vars(Receive)

SpecLive == InitLive /\ [][NextLive]_vars /\ Fairness

(* ------------------------------ cascades ------------------------------- *)
\* the variable a rule writes, "" when it writes none
Target(r) ==
  IF r.kind = "copy" THEN "y"
  ELSE IF r.kind \in {"const", "two"} THEN "z"
  ELSE ""
\* all the writes a rule list makes to one variable carry the same value
SingleValued(rs) ==
  \A i, j \in 1..Len(rs) : Target(rs[i]) = Target(rs[j]) => rs[i].kind = rs[j].kind

\* rule lists whose rules write a fixed function of variables no rule
\* writes: a copy of x, a constant, two different constants
CascadeRules == {CopyOnly, ConstOnly, Flip}

\* the dispatch loop, which receives whenever an event is offered; the
\* model follows it while the goroutines it has started and that have not
\* run yet are within MaxPending
CascadeLoop ==
  /\ pending < MaxPending
  /\ Receive

InitCascade ==
  /\ cache = [n \in Names |-> Absent]
  /\ store \in LiveStores
  /\ store0 = store
  /\ Updates = <<>>
  /\ pc = [t \in Tasks |-> IF t = Caller THEN "ready" ELSE "free"]
  /\ call = [t \in Tasks |-> NoCall]
  /\ ret = [t \in Tasks |-> NoRet]
  /\ ri = [t \in Batches |-> 1]
  /\ ran = [t \in Batches |-> <<>>]
  /\ logged = [t \in Batches |-> <<>>]
  /\ crashed = FALSE
  /\ failures = 0
  /\ before = [t \in Tasks |-> Absent]
  /\ writer = [n \in Names |-> NoTask]
  /\ pending = 0
  /\ done = 0
  /\ recvd = <<>>
  /\ effective = EmptyBag
  /\ calls = <<>>
  /\ rules \in CascadeRules
  /\ history = FALSE
  /\ ticks = 0
  /\ now = NoTime
  /\ ci = 0
  /\ result = NoResult
  /\ output = <<>>
  /\ panicked = ""

NextCascade ==
  \/ \E n \in CallerNames, v \in LiveValues : CallSet(n, v)
  \/ \E t \in Tasks : SetGet(t)
  \/ \E t \in Tasks : GetMiss(t)
  \/ \E t \in Tasks : SetCache(t)
  \/ \E t \in Tasks : SetSend(t)
  \/ \E t \in Tasks, ok \in BOOLEAN : SetStore(t, ok)
  \/ CascadeLoop
  \/ BatchStart
  \/ \E b \in Batches : RuleStart(b)
  \/ ConcurrentMapFault

SpecCascade == InitCascade /\ [][NextCascade]_vars /\ TaskFairness /\ WF_vars(CascadeLoop)

(* ------------- direct calls of the bridge and the built-ins ------------ *)
\* GlobalScope.Create, Branch and Enclose: panic("never reached"). The panic
\* unwinds the calling goroutine; nothing in this package recovers it.
ScopeOps == {"Create", "Branch", "Enclose"}
NeverReachedReturnsNil(op) == [panic |-> "", returned |-> TRUE]
NeverReached(op) == [panic |-> "never reached", returned |-> FALSE]

\* a goroutine calls Create, Branch or Enclose on the GlobalScope
CallScope(op) ==
  /\ ~crashed
  /\ panicked = ""
  /\ LET r == NeverReached(op) IN
       /\ panicked' = r.panic
       /\ result' = [op |-> op, name |-> "", args |-> <<>>, val |-> Nil,
                     err |-> IF r.returned THEN NoErr ELSE NoRet, ext |-> NoExt]
  /\ UNCHANGED <<cache, store, Updates, pc, call, ret, ri, ran, logged, crashed,
                 failures, pending, before, writer, done, recvd, effective, calls,
                 store0, rules, history, clockVars, output>>

\* GlobalScope.Get(symbol): manager.Get(symbol)
CallGet(name) ==
  /\ ~crashed
  /\ panicked = ""
  /\ LET g == Get(name) IN
       result' = [op |-> "Get", name |-> name, args |-> <<>>, val |-> g.val,
                  err |-> g.err, ext |-> NoExt]
  /\ UNCHANGED <<cache, store, Updates, pc, call, ret, ri, ran, logged, crashed,
                 failures, pending, before, writer, done, recvd, effective, calls,
                 store0, rules, history, clockVars, output, panicked>>

\* the argument lists the interpreter hands to a built-in
ArgLists == { <<>>, <<String(1)>>, <<String(1), String(2)>>, <<Int64(42)>>,
              <<Nil>>, <<String(1), Int64(42)>>, <<Int64(42), String(1)>> }
\* what the operating system makes of the command
Outcomes == {"start fails", "exit non-zero", "exit zero"}

AllStrings(args) == \A i \in 1..Len(args) : args[i].type = "string"

\* runFn(args): cmd.Run() starts the command and waits for it; its error is
\* dropped
runFnFailsWithCommand(args, outcome) ==
  IF Len(args) < 1
  THEN [val |-> Nil, err |-> Err("run takes at least one argument", ""), ext |-> NoExt]
  ELSE IF ~AllStrings(args)
  THEN [val |-> Nil, err |-> Err("run only takes string arguments", ""), ext |-> NoExt]
  ELSE [val |-> Nil,
        err |-> IF outcome = "exit zero" THEN NoErr ELSE Err(outcome, ""),
        ext |-> [cmd |-> args, outcome |-> outcome, waited |-> outcome # "start fails"]]
runFn(args, outcome) ==
  IF Len(args) < 1
  THEN [val |-> Nil, err |-> Err("run takes at least one argument", ""), ext |-> NoExt]
  ELSE IF ~AllStrings(args)
  THEN [val |-> Nil, err |-> Err("run only takes string arguments", ""), ext |-> NoExt]
  ELSE [val |-> Nil, err |-> NoErr,
        ext |-> [cmd |-> args, outcome |-> outcome, waited |-> outcome # "start fails"]]

\* the interpreter calls the built-in run
CallRun(args, outcome) ==
  /\ ~crashed
  /\ panicked = ""
  /\ LET r == runFn(args, outcome) IN
       result' = [op |-> "run", name |-> "", args |-> args, val |-> r.val, err |-> r.err,
                  ext |-> r.ext]
  /\ UNCHANGED <<cache, store, Updates, pc, call, ret, ri, ran, logged, crashed,
                 failures, pending, before, writer, done, recvd, effective, calls,
                 store0, rules, history, clockVars, output, panicked>>

\* the interpreter calls the built-in log
CallLog(args) ==
  /\ ~crashed
  /\ panicked = ""
  /\ LET r == logFn(args) IN
       /\ r.written => Len(output) < MaxLines
       /\ result' = [op |-> "log", name |-> "", args |-> args, val |-> r.val, err |-> r.err,
                     ext |-> NoExt]
       /\ output' = IF r.written THEN Append(output, args[1]) ELSE output
  /\ UNCHANGED <<cache, store, Updates, pc, call, ret, ri, ran, logged, crashed,
                 failures, pending, before, writer, done, recvd, effective, calls,
                 store0, rules, history, clockVars, panicked>>

\* the caches and Stores a direct call may find
CallCaches == { c \in [Names -> {Absent, Int64(1), Float64(1), String(1)}] :
                  \A n \in Names : n \notin {"x", "y"} => c[n] = Absent }
CallStores == { [EmptyStore EXCEPT ![Key("x")] = b] :
                  b \in {NotFound, JNumber(1), JString(1), JNull, Garbage} }

InitCalls ==
  /\ cache \in CallCaches
  /\ store \in CallStores
  /\ store0 = store
  /\ Updates = <<>>
  /\ pc = [t \in Tasks |-> IF t = Caller THEN "ready" ELSE "free"]
  /\ call = [t \in Tasks |-> NoCall]
  /\ ret = [t \in Tasks |-> NoRet]
  /\ ri = [t \in Batches |-> 1]
  /\ ran = [t \in Batches |-> <<>>]
  /\ logged = [t \in Batches |-> <<>>]
  /\ crashed = FALSE
  /\ failures = 0
  /\ before = [t \in Tasks |-> Absent]
  /\ writer = [n \in Names |-> NoTask]
  /\ pending = 0
  /\ done = 0
  /\ recvd = <<>>
  /\ effective = EmptyBag
  /\ calls = <<>>
  /\ rules = Rules
  /\ history = TRUE
  /\ ticks = 0
  /\ now = NoTime
  /\ ci = 0
  /\ result = NoResult
  /\ output = <<>>
  /\ panicked = ""

NextCalls ==
  \/ \E op \in ScopeOps : CallScope(op)
  \/ \E n \in {"x", "y", "z"} : CallGet(n)
  \/ \E a \in ArgLists, o \in Outcomes : CallRun(a, o)
  \/ \E a \in ArgLists : CallLog(a)

SpecCalls == InitCalls /\ [][NextCalls]_vars

(* ------------------------- helpers of the claims ----------------------- *)
\* the positions of a task inside VariableManager.Set
SetPcs == {"get", "getstore", "cache", "send", "sending"}
\* a task is in the vm.Get of line 68, which line 69 decides on
GetPcs == {"get", "getstore"}
\* no Set call in progress and no batch running
Quiescent == pending = 0 /\ \A t \in Tasks : pc[t] \in {"ready", "free"}

RECURSIVE BagOfSeq(_)
BagOfSeq(s) ==
  IF s = <<>> THEN EmptyBag
  ELSE SetToBag({Head(s)}) (+) BagOfSeq(Tail(s))

RECURSIVE BagOfCalls(_)
BagOfCalls(S) ==
  IF S = {} THEN EmptyBag
  ELSE LET t == CHOOSE u \in S : TRUE
       IN SetToBag({call[t]}) (+) BagOfCalls(S \ {t})

ReceivedBag == BagOfSeq(recvd)
QueuedBag == BagOfSeq([i \in 1..Len(Updates) |-> Received(Updates[i])])
\* effective Set calls that have not reached their send yet
UnsentBag == BagOfCalls({t \in Tasks : pc[t] \in {"cache", "send"}})

IsX(e) == e.name = "x"
IsY(e) == e.name = "y"
\* the sequence 1, 2, .., k
UpTo(k) == [i \in 1..k |-> i]
\* the cache or, when the name is not cached, the Store holds exactly v
HoldsValue(name, v) ==
  IF cache[name] # Absent THEN cache[name] = v
  ELSE Marshal(v).err = NoErr /\ store[Key(name)] = Marshal(v).b

(* ------------------------------- claims -------------------------------- *)

\* C1: every effective Set call puts exactly one event with its name and
\* value on Updates, a no-op puts none, and each event is received exactly
\* once: the effective calls are exactly the events received, the events
\* queued and the calls about to send; nothing more is ever received, and
\* at quiescence everything has been received.
C1_OneEventPerEffectiveSet ==
  /\ effective = (ReceivedBag (+) QueuedBag) (+) UnsentBag
  /\ ReceivedBag \sqsubseteq effective
  /\ Quiescent => ReceivedBag = effective

\* a quiescent state after Set(x, 1); Set(x, 1): one effective call, one
\* no-op, and the events all received
C1_Witness ==
  /\ Quiescent
  /\ ~crashed
  /\ panicked = ""
  /\ calls = << [name |-> "x", value |-> Int64(1)], [name |-> "x", value |-> Int64(1)] >>
  /\ Len(recvd) >= 2
  /\ BagCardinality(effective) = Len(recvd)

\* C2: a Set(name, v) that finds the current value of name, in the cache or
\* only in the Store, equal to v returns ok and changes nothing: no Store
\* write, no event, no cache write.
C2_EqualValueIsNoOp ==
  [][\A t \in Tasks :
       (pc[t] \in GetPcs /\ pc'[t] \notin GetPcs /\ HoldsValue(call[t].name, call[t].value))
       => /\ ret'[t] = NoErr
          /\ pc'[t] # "cache"
          /\ effective' = effective
          /\ cache' = cache /\ store' = store /\ Updates' = Updates]_vars

\* C3: when the dispatch loop receives the event of Set(name, v), the Store
\* already holds v under the key of name (or something written over it
\* since the process started).
C3_PersistThenNotify ==
  [][Len(recvd') > Len(recvd)
       => LET e == recvd'[Len(recvd')]
              k == Key(e.name)
          IN \/ store[k] = Marshal(e.value).b
             \/ store[k] # store0[k]]_vars

\* C4: the Updates channel never buffers: every event in it belongs to a
\* Set call that is still blocked in its send, so no Set has returned (or
\* gone on to its Store write) with its event not yet received.
C4_NoBufferedEvent ==
  \A i \in 1..Len(Updates) :
    LET e == Updates[i] IN pc[e.task] = "sending" /\ e = Event(e.task)

\* two Set calls blocked in their sends at once, neither event received
C4_Witness ==
  /\ Len(Updates) = 2
  /\ Updates[1].task # Updates[2].task
  /\ pc[Updates[1].task] = "sending"

\* C5: after one task has called Set(x, 1) and then Set(x, 2) on a variable
\* whose prior value is neither, and both calls have returned, the
\* dispatch loop has received exactly two events for x: (x, 1), then (x, 2).
C5_TwoSetsTwoEventsInOrder ==
  ( /\ calls = << [name |-> "x", value |-> Int64(1)], [name |-> "x", value |-> Int64(2)] >>
    /\ pc[Caller] = "ready"
    /\ store0[Key("x")] \notin {JNumber(1), JNumber(2)} )
  => SelectSeq(recvd, IsX) =
       << [name |-> "x", value |-> Int64(1)], [name |-> "x", value |-> Int64(2)] >>

\* both calls have returned and both events have been received in order
C5_Witness ==
  /\ calls = << [name |-> "x", value |-> Int64(1)], [name |-> "x", value |-> Int64(2)] >>
  /\ pc[Caller] = "ready"
  /\ store0[Key("x")] = JString(1)
  /\ Len(SelectSeq(recvd, IsX)) = 2

\* C6 as claimed: whenever a Set call returns from an effective write or a
\* no-op, Get(name) right after the return gives v and is a cache hit.
C6_ReadYourWriteFromCache ==
  [][\A t \in Tasks :
       (pc[t] \in SetPcs /\ pc'[t] \notin SetPcs /\ ret'[t].msg # "json: unsupported type")
       => (Get(call[t].name).val = call[t].value /\ Get(call[t].name).hit)']_vars

\* C6 as amended: after an effective write Get(name) is a cache hit and
\* gives v unless another task has written the entry since; after a no-op
\* Get(name) gives v, from the cache when the name is cached, unless
\* another task has written the entry since the call began.
C6_ReadYourWrite ==
  [][\A t \in Tasks :
       (pc[t] \in SetPcs /\ pc'[t] \notin SetPcs /\ ret'[t].msg # "json: unsupported type")
       => IF pc[t] \in GetPcs
          THEN cache'[call[t].name] = before[t]
               => (/\ Get(call[t].name).err = NoErr
                   /\ Get(call[t].name).val = call[t].value
                   /\ Get(call[t].name).hit = (cache[call[t].name] # Absent))'
          ELSE (/\ Get(call[t].name).hit
                /\ writer[call[t].name] = t => Get(call[t].name).val = call[t].value)']_vars

\* Set(x, "s1") has returned ok as a no-op on a value held only by the
\* Store: the cache has no entry for x
C6_Witness ==
  /\ pc[Caller] = "ready"
  /\ ret[Caller] = NoErr
  /\ call[Caller] = [name |-> "x", value |-> String(1)]
  /\ cache["x"] = Absent
  /\ Get("x").val = String(1)

\* C7: whenever a Set call returns an error, the cache entry of its name is
\* what it was when the call began.
C7_FailedSetLeavesCache ==
  [][\A t \in Tasks :
       (pc[t] \in SetPcs /\ pc'[t] \notin SetPcs /\ ret'[t] # NoErr)
       => cache'[call[t].name] = before[t]]_vars

\* C8: every event received starts exactly one batch, and a batch runs the
\* loaded rules one at a time in list order, each exactly once: what a
\* batch has run is always 1..k, its next rule is k+1, and a batch that has
\* ended has run 1..NumRules.
C8_OneBatchPerEventRulesInOrder ==
  /\ Len(recvd) = (done + pending) + Cardinality({b \in Batches : pc[b] # "free"})
  /\ \A b \in Batches :
       /\ Len(ran[b]) <= NumRules
       /\ ran[b] = UpTo(Len(ran[b]))
       /\ pc[b] # "free" => ri[b] = Len(ran[b]) + 1
       /\ pc[b] = "free" => ran[b] \in {<<>>, UpTo(NumRules)}

\* two batches have ended, one of them in this slot, all rules run in order
C8_Witness ==
  \E b \in Batches :
    pc[b] = "free" /\ ran[b] = UpTo(NumRules) /\ done >= 2 /\ Len(recvd) >= 3

\* C9: a rule that returns an error is logged under its name and does not
\* stop its batch: (log 42) always fails, so a batch that has run it has
\* logged it; a batch that has ended has run every rule whatever it
\* logged; and once (set z 1) has run in a batch, z is 1 in the cache.
C9_BatchIsolation ==
  \A b \in Batches :
    /\ \A i \in 1..Len(logged[b]) :
         \E k \in 1..Len(ran[b]) : rules[ran[b][k]].name = logged[b][i].rule
    /\ \A k \in 1..Len(ran[b]) :
         /\ rules[ran[b][k]].kind = "log"
              => \E i \in 1..Len(logged[b]) :
                   /\ logged[b][i].rule = rules[ran[b][k]].name
                   /\ logged[b][i].err.msg = "log function takes a single string argument"
         /\ rules[ran[b][k]].kind = "const" => cache["z"] = Int64(1)
    /\ (pc[b] = "free" /\ logged[b] # <<>>)
         => \A r \in 1..NumRules : \E k \in 1..Len(ran[b]) : ran[b][k] = r

\* a batch has ended with the second rule's error logged and the third
\* rule's write in the cache
C9_Witness ==
  \E b \in Batches :
    /\ pc[b] = "free"
    /\ logged[b] = << [rule |-> "b.rule",
                       err |-> Err("log function takes a single string argument", "")] >>
    /\ ran[b] = UpTo(NumRules)
    /\ cache["z"] = Int64(1)
    /\ writer["z"] = b

\* C10: the cascade rule (set y x) never produces two events for y in a
\* row that carry the same value (task 0 never writes y, so every event for
\* y comes from a batch).
C10_NoRepeatedCascadeEvent ==
  LET ys == SelectSeq(recvd, IsY)
  IN \A i \in 1..(Len(ys) - 1) : ys[i].value # ys[i + 1].value

\* C11: a call of Create, Branch or Enclose on the GlobalScope never returns:
\* it ends in the panic "never reached", and the step changes neither the
\* cache nor the Store nor the Updates channel.
C11_ScopeCallFaults ==
  [][(result' # result /\ result'.op \in ScopeOps)
       => /\ panicked' = "never reached"
          /\ result'.err = NoRet
          /\ cache' = cache /\ store' = store /\ Updates' = Updates]_vars

\* Enclose has been called after a log line was written, on a cache that
\* holds x: the panic is unwinding
C11_Witness ==
  /\ result.op = "Enclose"
  /\ panicked = "never reached"
  /\ cache["x"] # Absent
  /\ output # <<>>

\* C13: Get(name) returns the cache entry when there is one; otherwise the
\* value decoded from the Store record under varPrefix+name; the error
\* "undefined symbol: name" when the Store has no record either; the decode
\* error when the record does not decode; and the call changes neither the
\* cache nor the Store nor the Updates channel.
C13_GetCacheThenStore ==
  [][(result' # result /\ result'.op = "Get")
       => LET name == result'.name
              rec == store[Key(name)]
          IN /\ cache[name] # Absent
                  => result'.val = cache[name] /\ result'.err = NoErr
             /\ (cache[name] = Absent /\ rec = NotFound)
                  => result'.val = Nil /\ result'.err = Err("undefined symbol", name)
             /\ (cache[name] = Absent /\ rec = Garbage)
                  => result'.val = Nil /\ result'.err.msg = "invalid character"
             /\ (cache[name] = Absent /\ rec.j = "number")
                  => result'.val = Float64(rec.v) /\ result'.err = NoErr
             /\ (cache[name] = Absent /\ rec.j = "string")
                  => result'.val = String(rec.v) /\ result'.err = NoErr
             /\ (cache[name] = Absent /\ rec = JNull)
                  => result'.val = Nil /\ result'.err = NoErr
             /\ cache' = cache /\ store' = store /\ Updates' = Updates]_vars

\* Get("x") has returned the cached string although the Store holds a number
C13_Witness ==
  /\ result.op = "Get"
  /\ result.name = "x"
  /\ cache["x"] = String(1)
  /\ store[Key("x")] = JNumber(1)
  /\ result.val = String(1)
  /\ result.err = NoErr

\* C14: run with no argument or with a non-string argument returns an error
\* and runs nothing; with one or more string arguments it hands them to the
\* command, waits for a command that started, and returns (nil, nil)
\* whatever the command did.
C14_RunSwallowsCommandFailure ==
  result.op = "run" =>
    IF Len(result.args) >= 1 /\ AllStrings(result.args)
    THEN /\ result.val = Nil
         /\ result.err = NoErr
         /\ result.ext.cmd = result.args
         /\ result.ext.outcome \in Outcomes
         /\ result.ext.outcome # "start fails" => result.ext.waited
    ELSE /\ result.val = Nil
         /\ result.err = IF Len(result.args) < 1
                         THEN Err("run takes at least one argument", "")
                         ELSE Err("run only takes string arguments", "")
         /\ result.ext = NoExt

\* run with two string arguments has returned (nil, nil) for a command that
\* exited non-zero
C14_Witness ==
  /\ result.op = "run"
  /\ result.args = <<String(1), String(2)>>
  /\ result.ext.outcome = "exit non-zero"
  /\ result.val = Nil
  /\ result.err = NoErr

\* C15: log called with exactly one argument that is a string writes that
\* string and returns (nil, nil); any other call returns the error and
\* writes nothing.
C15_LogOneString ==
  [][((result' # result \/ output' # output) /\ result'.op = "log")
       => LET args == result'.args IN
          IF Len(args) = 1 /\ args[1].type = "string"
          THEN /\ output' = Append(output, args[1])
               /\ result'.val = Nil
               /\ result'.err = NoErr
          ELSE /\ output' = output
               /\ result'.val = Nil
               /\ result'.err = Err("log function takes a single string argument", "")]_vars

\* log has written one line and then refused two string arguments
C15_Witness ==
  /\ result.op = "log"
  /\ result.args = <<String(1), String(2)>>
  /\ result.err # NoErr
  /\ output = <<String(1)>>

\* C12: on every tick the clock goroutine calls Set for the six variables
\* in the order second, minute, hour, day, month, year with the tick's
\* readings, and a call leads to an event exactly when its integer differs
\* from the variable's current value, in the cache or only in the Store.
C12_TickEmitsOnlyChanges ==
  [][/\ calls' # calls
          => LET i == ((Len(calls') - 1) % NumClockNames) + 1
             IN calls'[Len(calls')] = [name |-> ClockNames[i], value |-> Int64(now[i])]
     /\ (pc[Caller] \in GetPcs /\ pc'[Caller] \notin GetPcs)
          => (pc'[Caller] = "cache"
                <=> ~HoldsValue(call[Caller].name, call[Caller].value))]_vars

\* C16: no two goroutines are at the cache map at the same time with one of
\* them at the write of Set.
C16_NoConcurrentCacheAccess == ~MapRace

\* C19: when no Set call is in progress and the Store has accepted every
\* write, each variable in the cache has its cached value in the Store.
C19_CacheStoreAgree ==
  ((\A t \in Tasks : pc[t] \notin SetPcs) /\ failures = 0 /\ ~crashed)
    => \A n \in Names :
         cache[n] # Absent => store[Key(n)] = Marshal(cache[n]).b

\* batches the loop has started that have not ended: running or waiting to
\* be scheduled
InFlight == pending + Cardinality({b \in Batches : pc[b] # "free"})

\* C17: the dispatch loop never waits for a batch: whenever an event is
\* offered the loop can receive it, whatever the number of batches in
\* flight, and every event received adds a batch in flight that only its
\* own end takes away.
C17_LoopNeverWaitsForBatches ==
  /\ (Updates # <<>> /\ ~crashed /\ Len(recvd) < EventBound) => ENABLED DispatchLoop
  /\ InFlight = Len(recvd) - done

\* every event received so far has a batch in flight, none has ended, and
\* they are more than the batches that run at once
C17_Witness ==
  /\ done = 0
  /\ Len(recvd) = MaxEvents
  /\ InFlight = MaxEvents
  /\ InFlight > MaxBatches

\* C18: under fair scheduling every Set call, of task 0 or of a batch,
\* returns unless the process has died of a map fault, also when several
\* callers are blocked in their sends at once; and the dispatch loop is
\* at its receive whenever an event is offered.
C18_SetReturns ==
  /\ [](Updates # <<>> /\ ~crashed => ENABLED Receive)
  /\ \A t \in Tasks : (pc[t] \in SetPcs) ~> (pc[t] \notin SetPcs \/ crashed)

\* two batches were inside Set("z", 1) together, both sent their event, and
\* their calls and those of task 0 have all returned
C18_Witness ==
  /\ Len(recvd) >= 3
  /\ \E i, j, k \in 1..Len(recvd) :
       /\ i < j /\ j < k
       /\ recvd[i].name = "x" /\ recvd[j].name = "z" /\ recvd[k].name = "z"
  /\ Quiescent
  /\ ~crashed

\* nothing is blocked on the hand-off and no batch is in flight, or the
\* process has died of the concurrent map fault
Settled == Quiescent \/ crashed

\* the dispatch loop is held by the bound on the goroutines followed
AtBound == pending = MaxPending

FlipNeverSettles ==
  (rules = Flip /\ cache["z"] # Absent /\ ~crashed) => ~Quiescent

====
